---------------------------- MODULE Spec2Model ----------------------------
(***************************************************************************)
(* Investor proposal vetting tool (src/app.py): the scoring engine         *)
(* (calculate_comprehensive_metrics), the AI response normalizer           *)
(* (generate_ai_insights) and the form-submission pipeline                 *)
(* (the "if submitted:" block).                                            *)
(*                                                                         *)
(* Numbers: the form's numeric inputs are drawn from small sets of         *)
(* naturals; every derived figure is an exact rational <<n, d>> in lowest  *)
(* terms (d > 0), and Python's float('inf') is the value Inf = <<1, 0>>.   *)
(***************************************************************************)
EXTENDS Integers, Sequences, FiniteSets, TLC

VARIABLES
    mode,            \* st.session_state.mode
    api_key,         \* st.session_state.api_key
    pc,              \* position in the script / in the function under study
    form_data,       \* the proposal collected from the form
    missing_fields,  \* validation result
    metrics,         \* result of calculate_comprehensive_metrics
    ai_insights,     \* value held by the ai_insights local
    recommendations, \* the Recommendation list
    report,          \* what the download button offers
    ui,              \* messages shown with st.error / st.warning / st.success
    raised,          \* stages of the current run in which an exception was raised
    calls,           \* how often each collaborator / stage was invoked in the run
    raw_response,    \* response.choices[0].message.content as received
    response_text,   \* the response_text local as the clean-up rewrites it
    session_state,   \* st.session_state.form_data and .uploaded_docs
    submissions,     \* history: how many times the form was submitted so far
    doc_mapping,     \* the files held by the upload widgets, by their type
    uploaded_docs    \* the text extracted from each uploaded file

vars == <<mode, api_key, pc, form_data, missing_fields, metrics, ai_insights,
          recommendations, report, ui, raised, calls, raw_response,
          response_text, session_state, submissions, doc_mapping,
          uploaded_docs>>

-----------------------------------------------------------------------------
(* Exact rational arithmetic standing for Python's float arithmetic.       *)

RECURSIVE Gcd(_, _)
Gcd(a, b) == IF b = 0 THEN a ELSE Gcd(b, a % b)

Abs(x) == IF x < 0 THEN -x ELSE x

Norm(n, d) ==
    IF d = 0 THEN <<1, 0>>
    ELSE LET g == Gcd(Abs(n), Abs(d))
             s == IF d < 0 THEN -1 ELSE 1
         IN  <<s * (n \div g), s * (d \div g)>>

Rat(n) == <<n, 1>>
Inf == <<1, 0>>
IsInf(a) == a[2] = 0

RAdd(a, b) == Norm(a[1] * b[2] + b[1] * a[2], a[2] * b[2])
RSub(a, b) == Norm(a[1] * b[2] - b[1] * a[2], a[2] * b[2])
RMul(a, b) == Norm(a[1] * b[1], a[2] * b[2])
RDiv(a, b) == Norm(a[1] * b[2], a[2] * b[1])
RLess(a, b) ==
    IF IsInf(a) THEN FALSE
    ELSE IF IsInf(b) THEN TRUE
    ELSE a[1] * b[2] < b[1] * a[2]
RLeq(a, b) == ~RLess(b, a)
\* Python's min(a, b) and max(a, b) return the first argument on a tie
RMin(a, b) == IF RLess(b, a) THEN b ELSE a
RMax(a, b) == IF RLess(a, b) THEN b ELSE a

-----------------------------------------------------------------------------
(* The proposal: form_data as the submit handler collects it.              *)

required_fields ==
    <<"company_name", "problem_solution", "market_info", "business_model_desc",
      "uniqueness", "team_experience", "team_structure", "funding_seeking",
      "use_of_funds", "cac", "ltv", "burn_rate", "runway_months",
      "competitors", "competitive_advantage", "customer_acquisition",
      "other_risks">>

url_fields_to_check ==
    <<"problem_solution", "market_info", "business_model_desc", "uniqueness",
      "progress", "team_experience", "competitors", "competitive_advantage",
      "customer_acquisition">>

NumericFields ==
    {"tam", "som", "team_size", "technical_team", "advisors_count",
     "funding_raised", "funding_seeking", "current_mrr", "arr", "burn_rate",
     "runway_months", "gross_margin", "cac", "ltv", "current_customers",
     "monthly_growth_rate", "churn_rate"}

TextFields ==
    {"company_name", "problem_solution", "market_info", "business_model_desc",
     "uniqueness", "progress", "team_experience", "team_structure",
     "use_of_funds", "competitors", "competitive_advantage",
     "customer_acquisition", "other_risks"}

FormFields == NumericFields \cup TextFields

\* A text answer is a sequence of words; "url" is a word the URL pattern
\* matches, "fetched" a block of content appended by the URL enrichment.
Filled == <<"text">>
Blank == <<>>

\* A complete proposal that meets every benchmark.
BaseProposal ==
    [f \in FormFields |->
        CASE f = "tam" -> 5000
          [] f = "som" -> 100
          [] f = "team_size" -> 10
          [] f = "technical_team" -> 6
          [] f = "advisors_count" -> 2
          [] f = "funding_raised" -> 1000000
          [] f = "funding_seeking" -> 500000
          [] f = "current_mrr" -> 100
          [] f = "arr" -> 1200
          [] f = "burn_rate" -> 300
          [] f = "runway_months" -> 18
          [] f = "gross_margin" -> 70
          [] f = "cac" -> 100
          [] f = "ltv" -> 400
          [] f = "current_customers" -> 50
          [] f = "monthly_growth_rate" -> 12
          [] f = "churn_rate" -> 5
          [] OTHER -> Filled]

\* data with the fields of upd replacing its own
With(data, upd) ==
    [f \in DOMAIN data |-> IF f \in DOMAIN upd THEN upd[f] ELSE data[f]]

-----------------------------------------------------------------------------
(* calculate_comprehensive_metrics, section by section.                    *)

\* the ratio taken without looking at cac first
ltv_cac_ratio_unguarded(data) == Norm(data["ltv"], data["cac"])

ltv_cac_ratio(data) ==
    IF data["cac"] > 0 THEN Norm(data["ltv"], data["cac"]) ELSE Rat(0)

Max(a, b) == IF a > b THEN a ELSE b

\* a payback period that takes the whole monthly revenue, not the revenue
\* per customer
payback_period_ignoring_customers(data) ==
    IF data["cac"] > 0 /\ data["arr"] > 0
    THEN RDiv(Rat(data["cac"]), RDiv(Rat(data["arr"]), Rat(12)))
    ELSE Inf

payback_period(data) ==
    IF data["cac"] > 0
    THEN IF data["arr"] > 0
         THEN RDiv(Rat(data["cac"]),
                   RDiv(RDiv(Rat(data["arr"]), Rat(12)),
                        Rat(Max(data["current_customers"], 1))))
         ELSE Inf
    ELSE Inf

\* a burn multiple taken on the gross burn
burn_multiple_gross(data) ==
    IF data["burn_rate"] > 0 /\ data["current_mrr"] > 0
    THEN IF data["burn_rate"] - data["current_mrr"] > 0
            /\ data["monthly_growth_rate"] > 0
         THEN RDiv(Rat(data["burn_rate"]),
                   RDiv(Rat(data["current_mrr"] * data["monthly_growth_rate"]),
                        Rat(100)))
         ELSE Rat(0)
    ELSE Inf

burn_multiple(data) ==
    IF data["burn_rate"] > 0 /\ data["current_mrr"] > 0
    THEN LET net_burn == data["burn_rate"] - data["current_mrr"]
         IN  IF net_burn > 0 /\ data["monthly_growth_rate"] > 0
             THEN RDiv(Rat(net_burn),
                       RDiv(Rat(data["current_mrr"] * data["monthly_growth_rate"]),
                            Rat(100)))
             ELSE Rat(0)
    ELSE Inf

\* an efficiency score that counts the gross margin in full
efficiency_score_full_margin(data) ==
    LET ratio == ltv_cac_ratio(data)
        ltv_cac_score ==
            IF RLess(Rat(0), ratio)
            THEN RMin(Rat(100), RMul(RDiv(ratio, Rat(3)), Rat(50)))
            ELSE Rat(0)
    IN  RMin(Rat(100), RAdd(ltv_cac_score, Rat(data["gross_margin"])))

efficiency_score(data) ==
    LET ratio == ltv_cac_ratio(data)
        ltv_cac_score ==
            IF RLess(Rat(0), ratio)
            THEN RMin(Rat(100), RMul(RDiv(ratio, Rat(3)), Rat(50)))
            ELSE Rat(0)
        margin_score == RMul(Rat(data["gross_margin"]), <<1, 2>>)
    IN  RMin(Rat(100), RAdd(ltv_cac_score, margin_score))

\* growth tiers that start just above each boundary
growth_score_exclusive(data) ==
    LET growth_rate == data["monthly_growth_rate"]
    IN  IF growth_rate > 20 THEN Rat(100)
        ELSE IF growth_rate > 10 THEN Rat(80)
        ELSE IF growth_rate > 5 THEN Rat(60)
        ELSE Rat(growth_rate * 10)

growth_score(data) ==
    LET growth_rate == data["monthly_growth_rate"]
    IN  IF growth_rate >= 20 THEN Rat(100)
        ELSE IF growth_rate >= 10 THEN Rat(80)
        ELSE IF growth_rate >= 5 THEN Rat(60)
        ELSE Rat(growth_rate * 10)

\* a market score whose size tiers start just above each boundary
market_score_exclusive_tiers(data) ==
    LET tam == data["tam"]
        market_size_score ==
            IF tam > 10000 THEN 100
            ELSE IF tam > 1000 THEN 80
            ELSE IF tam > 100 THEN 60
            ELSE 40
        capture_score ==
            IF tam > 0 /\ data["som"] > 0
            THEN LET capture_ratio == RMul(Norm(data["som"], tam), Rat(100))
                 IN  RMin(Rat(100), RMul(capture_ratio, Rat(20)))
            ELSE Rat(50)
    IN  RDiv(RAdd(Rat(market_size_score), capture_score), Rat(2))

\* a market score that gives a missing som no capture score at all
market_score_no_default(data) ==
    LET tam == data["tam"]
        market_size_score ==
            IF tam >= 10000 THEN 100
            ELSE IF tam >= 1000 THEN 80
            ELSE IF tam >= 100 THEN 60
            ELSE 40
        capture_score ==
            IF tam > 0 /\ data["som"] > 0
            THEN LET capture_ratio == RMul(Norm(data["som"], tam), Rat(100))
                 IN  RMin(Rat(100), RMul(capture_ratio, Rat(20)))
            ELSE Rat(0)
    IN  RDiv(RAdd(Rat(market_size_score), capture_score), Rat(2))

market_score(data) ==
    LET tam == data["tam"]
        market_size_score ==
            IF tam >= 10000 THEN 100
            ELSE IF tam >= 1000 THEN 80
            ELSE IF tam >= 100 THEN 60
            ELSE 40
        capture_score ==
            IF tam > 0 /\ data["som"] > 0
            THEN LET capture_ratio == RMul(Norm(data["som"], tam), Rat(100))
                 IN  RMin(Rat(100), RMul(capture_ratio, Rat(20)))
            ELSE Rat(50)
    IN  RDiv(RAdd(Rat(market_size_score), capture_score), Rat(2))

\* a team score whose technical ratio is capped at 100
team_score_capped_ratio(data) ==
    LET team_size_score == RMin(Rat(100), Rat(data["team_size"] * 5))
        technical_ratio ==
            RMin(Rat(100),
                 RMul(Norm(data["technical_team"], Max(data["team_size"], 1)),
                      Rat(100)))
        advisor_score == RMin(Rat(100), Rat(data["advisors_count"] * 20))
    IN  RDiv(RAdd(RAdd(team_size_score, technical_ratio), advisor_score), Rat(3))

team_score(data) ==
    LET team_size_score == RMin(Rat(100), Rat(data["team_size"] * 5))
        technical_ratio ==
            RMul(Norm(data["technical_team"], Max(data["team_size"], 1)), Rat(100))
        advisor_score == RMin(Rat(100), Rat(data["advisors_count"] * 20))
    IN  RDiv(RAdd(RAdd(team_size_score, technical_ratio), advisor_score), Rat(3))

traction_score(data) ==
    LET customer_score == RMin(Rat(100), Norm(data["current_customers"], 10))
        revenue_score == RMin(Rat(100), RMul(Norm(data["arr"], 100000), Rat(100)))
        funding_score ==
            RMin(Rat(100), RMul(Norm(data["funding_raised"], 1000000), Rat(50)))
    IN  RDiv(RAdd(RAdd(customer_score, revenue_score), funding_score), Rat(3))

risk_score(data) ==
    LET runway_score == RMin(Rat(100), RMul(Norm(data["runway_months"], 18), Rat(100)))
        churn_score == RMax(Rat(0), RSub(Rat(100), Rat(data["churn_rate"] * 10)))
    IN  RDiv(RAdd(runway_score, churn_score), Rat(2))

\* weights that still add up to 1 but favour risk over traction
weights_risk_heavy ==
    [efficiency |-> <<1, 5>>, growth |-> <<1, 5>>, market |-> <<3, 20>>,
     team |-> <<3, 20>>, traction |-> <<1, 10>>, risk |-> <<1, 5>>]

weights ==
    [efficiency |-> <<1, 5>>, growth |-> <<1, 5>>, market |-> <<3, 20>>,
     team |-> <<3, 20>>, traction |-> <<1, 5>>, risk |-> <<1, 10>>]

overall_score(m) ==
    RAdd(RAdd(RAdd(RAdd(RAdd(
        RMul(m.efficiency_score, weights.efficiency),
        RMul(m.growth_score, weights.growth)),
        RMul(m.market_score, weights.market)),
        RMul(m.team_score, weights.team)),
        RMul(m.traction_score, weights.traction)),
        RMul(m.risk_score, weights.risk))

\* the dictionary returned by the except branch
ErrorMetricsInfPayback ==
    [ltv_cac_ratio |-> Rat(0), efficiency_score |-> Rat(0), growth_score |-> Rat(0),
     market_score |-> Rat(0), team_score |-> Rat(0), traction_score |-> Rat(0),
     risk_score |-> Rat(0), overall_score |-> Rat(0), burn_multiple |-> Inf,
     payback_period |-> Inf]

ErrorMetrics ==
    [ltv_cac_ratio |-> Rat(0), efficiency_score |-> Rat(0), growth_score |-> Rat(0),
     market_score |-> Rat(0), team_score |-> Rat(0), traction_score |-> Rat(0),
     risk_score |-> Rat(0), overall_score |-> Rat(0), burn_multiple |-> Rat(0),
     payback_period |-> Rat(0)]

\* exc: an exception is raised inside the try block (a field that is not a
\* number, a float operation that fails); the except branch answers then.
calculate_comprehensive_metrics(data, exc) ==
    IF exc THEN ErrorMetrics
    ELSE LET sub ==
                 [ltv_cac_ratio |-> ltv_cac_ratio(data),
                  payback_period |-> payback_period(data),
                  burn_multiple |-> burn_multiple(data),
                  efficiency_score |-> efficiency_score(data),
                  growth_score |-> growth_score(data),
                  market_score |-> market_score(data),
                  team_score |-> team_score(data),
                  traction_score |-> traction_score(data),
                  risk_score |-> risk_score(data)]
         IN  [f \in DOMAIN sub \cup {"overall_score"} |->
                 IF f = "overall_score" THEN overall_score(sub) ELSE sub[f]]

\* the value of a local that has not been assigned
NoMetrics == [f \in DOMAIN ErrorMetrics |-> Rat(-1)]

SubScores ==
    {"efficiency_score", "growth_score", "market_score", "team_score",
     "traction_score", "risk_score"}

-----------------------------------------------------------------------------
(* Values shared by the specifications.                                    *)

\* JSON values and Python dictionaries are tagged pairs <<tag, payload>>;
\* a dictionary's payload is a function from its keys (strings).
EmptyDict == <<"obj", <<>>>>

NoReport ==
    [kind |-> "none", recommendations |-> <<>>, ai_section |-> FALSE,
     no_recommendations_note |-> FALSE]

\* ai counts the calls of generate_ai_insights, collaborator those of the
\* OpenAI client, render those of generate_pdf_report and the text fallback,
\* fetch those of fetch_url_content, extract those of process_uploaded_file
NoCalls ==
    [metrics |-> 0, ai |-> 0, collaborator |-> 0, fetch |-> 0, recommend |-> 0,
     render |-> 0, extract |-> 0]

\* the locals of a run before the handler assigns them
FreshRun ==
    /\ missing_fields = <<>>
    /\ metrics = NoMetrics
    /\ ai_insights = EmptyDict
    /\ recommendations = <<>>
    /\ report = NoReport
    /\ ui = {}
    /\ raised = {}
    /\ calls = NoCalls
    /\ response_text = <<>>
    /\ doc_mapping = <<>>
    /\ uploaded_docs = <<>>

\* session state as the script initialises it
FreshSession ==
    /\ mode = "Light"
    /\ api_key = <<>>
    /\ session_state = [form_data |-> EmptyDict, uploaded_docs |-> EmptyDict]
    /\ submissions = 0

-----------------------------------------------------------------------------
(* SpecCalc: calculate_comprehensive_metrics called on every proposal the  *)
(* form's input constraints admit (within the value sets below).           *)

MaxTeam == 3

UnitEconomicsInputs ==
    [cac : {0, 100, 300}, ltv : {0, 200, 300, 400, 900, 1200},
     arr : {0, 1200, 100000, 200000}, current_customers : {0, 50, 1000, 2000},
     gross_margin : {0, 50, 70, 100}]

BurnInputs ==
    [burn_rate : {0, 100, 300}, current_mrr : {0, 100, 300, 400},
     monthly_growth_rate : {0, 4, 5, 9, 10, 12, 19, 20, 25}]

MarketInputs ==
    [tam : {0, 50, 100, 1000, 5000, 10000}, som : {0, 1, 100, 250, 6000}]

TeamInputs ==
    [team_size : (1..MaxTeam) \cup {10, 20, 30},
     technical_team : (0..MaxTeam) \cup {6, 10, 40},
     advisors_count : {0, 2, 5, 6}]

TractionInputs ==
    [current_customers : {0, 50, 1000, 2000}, arr : {0, 1200, 100000, 200000},
     funding_raised : {0, 1000000, 2000000, 3000000}]

RiskInputs ==
    [runway_months : {0, 9, 12, 18, 24}, churn_rate : {0, 5, 6, 10, 11}]

CalcProposals ==
    {With(BaseProposal, u) :
        u \in UnitEconomicsInputs \cup BurnInputs \cup MarketInputs
              \cup TeamInputs \cup TractionInputs \cup RiskInputs}

InitCalc ==
    /\ FreshSession
    /\ FreshRun
    /\ raw_response = <<>>
    /\ pc = "call"
    /\ form_data \in CalcProposals

CalcCall ==
    /\ pc = "call"
    /\ \E exc \in BOOLEAN :
          /\ metrics' = calculate_comprehensive_metrics(form_data, exc)
          /\ raised' = IF exc THEN {"metrics"} ELSE {}
          /\ ui' = IF exc THEN {"metrics_error"} ELSE {}
    /\ calls' = [calls EXCEPT !.metrics = @ + 1]
    /\ pc' = "return"
    /\ UNCHANGED <<mode, api_key, form_data, missing_fields, ai_insights,
                   recommendations, report, raw_response, response_text>>
    /\ UNCHANGED <<session_state, submissions, doc_mapping, uploaded_docs>>

NextCalc == CalcCall

SpecCalc == InitCalc /\ [][NextCalc]_vars

InRange(x) == RLeq(Rat(0), x) /\ RLeq(x, Rat(100))

\* C1: on every proposal the form admits, each of the six sub-scores and
\* overall_score returned by calculate_comprehensive_metrics lies in [0, 100].
\* (Violated: technical_team is not bounded by team_size.)
C1_ScoresInRange ==
    (pc = "return" /\ "metrics" \notin raised) =>
        \A f \in SubScores \cup {"overall_score"} : InRange(metrics[f])

\* C5: when an exception is raised inside calculate_comprehensive_metrics,
\* the call still returns, and every entry of the returned MetricSet
\* (the three ratios, the six sub-scores, overall_score) is 0.
C5_FaultGivesZeros ==
    (pc = "return" /\ "metrics" \in raised) =>
        \A f \in SubScores \cup {"overall_score", "ltv_cac_ratio",
                                 "payback_period", "burn_multiple"} :
            metrics[f] = Rat(0)

C5_Witness ==
    /\ pc = "return"
    /\ "metrics" \in raised
    /\ form_data["cac"] > 0
    /\ metrics["payback_period"] = Rat(0)

-----------------------------------------------------------------------------
(* generate_ai_insights: the clean-up of the collaborator's response and   *)
(* the JSON parse.  A text is a sequence of tokens, each standing for the  *)
(* characters TokenText gives: "F" is a triple backtick, "Q" a double      *)
(* quote, "_" white space, "w" a word, "1" a digit, "n" the literal null.  *)
(* (A string of the model cannot hold a backtick: TokenText writes the     *)
(* triple backtick as three apostrophes.)                                  *)

TokenText(c) ==
    CASE c = "F" -> "'''"
      [] c = "_" -> " "
      [] c = "n" -> "null"
      [] OTHER -> c

RECURSIVE Concat(_)
Concat(t) == IF t = <<>> THEN "" ELSE TokenText(Head(t)) \o Concat(Tail(t))

\* is pat at position i of t
MatchAt(t, pat, i) ==
    /\ i + Len(pat) - 1 <= Len(t)
    /\ \A k \in 1..Len(pat) : t[i + k - 1] = pat[k]

\* str.find, 1-based; 0 when pat does not occur
Find(t, pat) ==
    LET hits == {i \in 1..Len(t) : MatchAt(t, pat, i)}
    IN  IF hits = {} THEN 0 ELSE CHOOSE i \in hits : \A j \in hits : i <= j

\* str.rfind, 1-based; 0 when pat does not occur
RFind(t, pat) ==
    LET hits == {i \in 1..Len(t) : MatchAt(t, pat, i)}
    IN  IF hits = {} THEN 0 ELSE CHOOSE i \in hits : \A j \in hits : j <= i

Contains(t, pat) == Find(t, pat) # 0

\* t.split(sep)[0]
SplitFirst(t, sep) ==
    IF Contains(t, sep) THEN SubSeq(t, 1, Find(t, sep) - 1) ELSE t

\* t.split(sep)[1], for a t that contains sep
SplitSecond(t, sep) ==
    SplitFirst(SubSeq(t, Find(t, sep) + Len(sep), Len(t)), sep)

RECURSIVE LStrip(_)
LStrip(t) == IF t # <<>> /\ Head(t) = "_" THEN LStrip(Tail(t)) ELSE t

RECURSIVE RStrip(_)
RStrip(t) ==
    IF t # <<>> /\ t[Len(t)] = "_" THEN RStrip(SubSeq(t, 1, Len(t) - 1)) ELSE t

\* str.strip
Strip(t) == RStrip(LStrip(t))

Fence == <<"F">>
JsonFence == <<"F", "json">>

\* "Remove markdown code blocks if present"
remove_code_blocks(t) ==
    IF Contains(t, JsonFence)
    THEN Strip(SplitFirst(SplitSecond(t, JsonFence), Fence))
    ELSE IF Contains(t, Fence)
    THEN Strip(SplitFirst(SplitSecond(t, Fence), Fence))
    ELSE t

\* "Remove any non-JSON content before the first {"
remove_before_first_brace(t) ==
    IF t # <<>> /\ Head(t) = "{" THEN t
    ELSE LET start == Find(t, <<"{">>)
         IN  IF start # 0 THEN SubSeq(t, start, Len(t)) ELSE t

\* "Remove any non-JSON content after the last }"
remove_after_last_brace(t) ==
    IF t # <<>> /\ t[Len(t)] = "}"
    THEN LET end == RFind(t, <<"}">>) IN SubSeq(t, 1, end)
    ELSE t

clean_up(t) ==
    remove_after_last_brace(remove_before_first_brace(remove_code_blocks(t)))

-----------------------------------------------------------------------------
(* json.loads on a token text.  A result is [ok, val, pos]: whether a      *)
(* value was read, the value, and the position after it.                   *)

JsonNull == <<"null", 0>>
ParseFail == [ok |-> FALSE, val |-> JsonNull, pos |-> 0]
ParseOk(v, p) == [ok |-> TRUE, val |-> v, pos |-> p]

RECURSIVE SkipWs(_, _)
SkipWs(t, i) == IF i <= Len(t) /\ t[i] = "_" THEN SkipWs(t, i + 1) ELSE i

\* the position after the run of digits that starts at i
RECURSIVE DigitsEnd(_, _)
DigitsEnd(t, i) == IF i <= Len(t) /\ t[i] = "1" THEN DigitsEnd(t, i + 1) ELSE i

\* t[i] is an opening quote: the string runs to the next quote
ParseString(t, i) ==
    LET close == {j \in (i + 1)..Len(t) : t[j] = "Q"}
    IN  IF close = {} THEN ParseFail
        ELSE LET j == CHOOSE j \in close : \A k \in close : j <= k
             IN  ParseOk(<<"str", Concat(SubSeq(t, i + 1, j - 1))>>, j + 1)

\* dict[key] = value: a repeated key keeps the last value
Put(f, key, value) ==
    [k \in DOMAIN f \cup {key} |-> IF k = key THEN value ELSE f[k]]

RECURSIVE ParseValue(_, _)
RECURSIVE ParseMembers(_, _, _)
RECURSIVE ParseElements(_, _, _)

\* i is at the key of the next member; acc holds the members read so far
ParseMembers(t, i, acc) ==
    IF i > Len(t) \/ t[i] # "Q" THEN ParseFail
    ELSE LET key == ParseString(t, i)
         IN  IF ~key.ok THEN ParseFail
             ELSE LET colon == SkipWs(t, key.pos)
                  IN  IF colon > Len(t) \/ t[colon] # ":" THEN ParseFail
                      ELSE LET v == ParseValue(t, SkipWs(t, colon + 1))
                           IN  IF ~v.ok THEN ParseFail
                               ELSE LET next == SkipWs(t, v.pos)
                                        dict == Put(acc, key.val[2], v.val)
                                    IN  IF next > Len(t) THEN ParseFail
                                        ELSE IF t[next] = "}"
                                        THEN ParseOk(<<"obj", dict>>, next + 1)
                                        ELSE IF t[next] = ","
                                        THEN ParseMembers(t, SkipWs(t, next + 1), dict)
                                        ELSE ParseFail

\* i is at the next element; acc holds the elements read so far
ParseElements(t, i, acc) ==
    LET v == ParseValue(t, i)
    IN  IF ~v.ok THEN ParseFail
        ELSE LET next == SkipWs(t, v.pos)
                 list == Append(acc, v.val)
             IN  IF next > Len(t) THEN ParseFail
                 ELSE IF t[next] = "]" THEN ParseOk(<<"arr", list>>, next + 1)
                 ELSE IF t[next] = ","
                 THEN ParseElements(t, SkipWs(t, next + 1), list)
                 ELSE ParseFail

\* i is at the first token of a value
ParseValue(t, i) ==
    IF i > Len(t) THEN ParseFail
    ELSE IF t[i] = "{"
    THEN LET j == SkipWs(t, i + 1)
         IN  IF j <= Len(t) /\ t[j] = "}" THEN ParseOk(EmptyDict, j + 1)
             ELSE ParseMembers(t, j, <<>>)
    ELSE IF t[i] = "["
    THEN LET j == SkipWs(t, i + 1)
         IN  IF j <= Len(t) /\ t[j] = "]" THEN ParseOk(<<"arr", <<>>>>, j + 1)
             ELSE ParseElements(t, j, <<>>)
    ELSE IF t[i] = "Q" THEN ParseString(t, i)
    ELSE IF t[i] = "1" THEN ParseOk(<<"num", DigitsEnd(t, i) - i>>, DigitsEnd(t, i))
    ELSE IF t[i] = "n" THEN ParseOk(JsonNull, i + 1)
    ELSE ParseFail

\* json.loads: one value, white space around it, nothing else
json_loads(t) ==
    LET v == ParseValue(t, SkipWs(t, 1))
    IN  IF v.ok /\ SkipWs(t, v.pos) = Len(t) + 1 THEN v ELSE ParseFail

Str(x) == <<"str", x>>
List(xs) == <<"arr", [i \in DOMAIN xs |-> Str(xs[i])]>>

\* the "structured error response" of the except json.JSONDecodeError branch
FallbackRecord ==
    <<"obj",
      [error |-> Str("JSON parsing failed"),
       investment_thesis |-> Str("Unable to parse AI response. Please try again."),
       investment_recommendation |-> Str("HOLD"),
       valuation_assessment |-> Str("Analysis incomplete"),
       key_strengths |-> List(<<"Data provided", "Comprehensive information",
                                "Clear metrics", "Established team">>),
       key_concerns |-> List(<<"Technical analysis error", "Please retry",
                               "Consider manual review", "System processing issue">>),
       due_diligence_priorities |-> List(<<"Retry analysis", "Manual review",
                                           "Verify data">>),
       growth_potential |-> Str("Requires reanalysis"),
       team_assessment |-> Str("Team information provided"),
       market_timing |-> Str("Market analysis pending"),
       competitive_position |-> Str("Competitive data available"),
       financial_health |-> Str("Financial metrics provided"),
       risk_assessment |-> Str("MEDIUM - Analysis incomplete"),
       recommended_terms |-> Str("Rerun analysis for recommendations"),
       post_investment_support |-> List(<<"Technical review", "Strategic planning",
                                          "Market analysis">>),
       comparable_exits |-> Str("Data pending"),
       investment_score |-> <<"num", 50>>]>>

ErrorRecord(msg) == <<"obj", [error |-> Str(msg)]>>

\* a parse step that answers a failure with the error alone
parse_json_error_only(t) ==
    LET v == json_loads(t)
    IN  IF v.ok THEN v.val ELSE ErrorRecord("JSON parsing failed")

\* "Parse JSON": try json.loads, except json.JSONDecodeError the fallback
parse_json(t) ==
    LET v == json_loads(t)
    IN  IF v.ok THEN v.val ELSE FallbackRecord

\* what client.chat.completions.create does: it answers with a text, or
\* it raises (msg tells which words str(e) holds)
TextOutcome(t) == [kind |-> "text", text |-> t, msg |-> ""]
RaiseOutcome(m) == [kind |-> "raise", text |-> <<>>, msg |-> m]

\* a prefix test that accepts every non-empty key
starts_with_anything(key) == key # <<>>

starts_with_sk(key) == key # <<>> /\ Head(key) = "sk-"

generate_ai_insights(key, outcome) ==
    IF key = <<>>
    THEN ErrorRecord("Please provide an OpenAI API key for Pro mode analysis.")
    ELSE IF ~starts_with_sk(key)
    THEN ErrorRecord("Invalid API key format. OpenAI API keys should start with 'sk-'")
    ELSE IF outcome.kind = "raise"
    THEN CASE outcome.msg = "api_key" ->
                ErrorRecord("Invalid API key. Please check your OpenAI API key and try again.")
           [] outcome.msg = "rate" ->
                ErrorRecord("API rate limit reached. Please wait a moment and try again.")
           [] OTHER -> ErrorRecord("AI analysis failed")
    ELSE parse_json(clean_up(Strip(outcome.text)))

-----------------------------------------------------------------------------
(* SpecNorm: generate_ai_insights, with a well-formed key, from the        *)
(* collaborator's answer to the returned value, one clean-up step at a     *)
(* time.                                                                   *)

MaxLen == 3

Tokens == {"{", "}", "[", "]", ":", ",", "Q", "F", "json", "w", "1", "n", "_"}

\* every text of at most MaxLen tokens
ShortTexts == UNION {[1..k -> Tokens] : k \in 0..MaxLen}

\* well-formed JSON object texts
KeyBodies == {<<"w">>, <<"F">>, <<"{">>, <<"}">>, <<"json">>}
ValueTexts ==
    {<<"1">>, <<"n">>, <<"Q", "w", "Q">>, <<"Q", "F", "json", "Q">>,
     <<"{", "}">>, <<"[", "1", ",", "1", "]">>}
JObjects ==
    {<<"{", "}">>}
    \cup {<<"{", "Q">> \o k \o <<"Q", ":", "_">> \o v \o <<"}">> :
             k \in KeyBodies, v \in ValueTexts}

\* prose around a fenced block, and the fence's language tag
Leads == {<<>>, <<"w", "_">>, <<"w", "{", "w", "}", "_">>}
Trails == {<<>>, <<"_", "w">>, <<"_", "w", "{", "}">>}
Tags == {<<>>, <<"json">>, <<"w">>}

Wrap(lead, tag, j, trail) ==
    lead \o Fence \o tag \o <<"_">> \o j \o <<"_">> \o Fence \o trail

WrappedTexts ==
    {Wrap(lead, tag, j, trail) :
        lead \in Leads, tag \in Tags, j \in JObjects, trail \in Trails}

\* a JSON object text cut short
TruncatedTexts ==
    UNION {{SubSeq(j, 1, k) : k \in 1..(Len(j) - 1)} : j \in JObjects}

\* a JSON object followed by prose, no fence around it
TrailedTexts ==
    {j \o trail : j \in JObjects, trail \in Trails \ {<<>>}}

\* two fenced blocks, each fence plain or tagged
SmallObjects == {<<"{", "}">>, <<"{", "Q", "w", "Q", ":", "_", "1", "}">>,
                 <<"{", "Q", "w", "Q", ":", "_", "n", "}">>}
MultiBlockTexts ==
    {Fence \o tag1 \o <<"_">> \o j1 \o <<"_">> \o Fence \o <<"_", "w", "_">>
        \o Fence \o tag2 \o <<"_">> \o j2 \o <<"_">> \o Fence :
        tag1 \in {<<>>, <<"json">>}, tag2 \in {<<>>, <<"json">>},
        j1 \in SmallObjects, j2 \in SmallObjects}

Responses ==
    ShortTexts \cup WrappedTexts \cup TruncatedTexts \cup JObjects
    \cup TrailedTexts \cup MultiBlockTexts

GoodKey == <<"sk-", "x">>

InitNorm ==
    /\ mode = "Pro"
    /\ api_key = GoodKey
    /\ FreshRun
    /\ pc = "received"
    /\ form_data = BaseProposal
    /\ raw_response \in Responses
    /\ session_state = [form_data |-> EmptyDict, uploaded_docs |-> EmptyDict]
    /\ submissions = 0


\* response.choices[0].message.content.strip()
ReadContent ==
    /\ pc = "received"
    /\ response_text' = Strip(raw_response)
    /\ calls' = [calls EXCEPT !.ai = @ + 1]
    /\ pc' = "code_blocks"
    /\ UNCHANGED <<mode, api_key, form_data, missing_fields, metrics, ai_insights,
                   recommendations, report, ui, raised, raw_response>>
    /\ UNCHANGED <<session_state, submissions, doc_mapping, uploaded_docs>>

RemoveCodeBlocks ==
    /\ pc = "code_blocks"
    /\ response_text' = remove_code_blocks(response_text)
    /\ pc' = "before_brace"
    /\ UNCHANGED <<mode, api_key, form_data, missing_fields, metrics, ai_insights,
                   recommendations, report, ui, raised, calls, raw_response>>
    /\ UNCHANGED <<session_state, submissions, doc_mapping, uploaded_docs>>

RemoveBeforeFirstBrace ==
    /\ pc = "before_brace"
    /\ response_text' = remove_before_first_brace(response_text)
    /\ pc' = "after_brace"
    /\ UNCHANGED <<mode, api_key, form_data, missing_fields, metrics, ai_insights,
                   recommendations, report, ui, raised, calls, raw_response>>
    /\ UNCHANGED <<session_state, submissions, doc_mapping, uploaded_docs>>

RemoveAfterLastBrace ==
    /\ pc = "after_brace"
    /\ response_text' = remove_after_last_brace(response_text)
    /\ pc' = "parse"
    /\ UNCHANGED <<mode, api_key, form_data, missing_fields, metrics, ai_insights,
                   recommendations, report, ui, raised, calls, raw_response>>
    /\ UNCHANGED <<session_state, submissions, doc_mapping, uploaded_docs>>

ParseJson ==
    /\ pc = "parse"
    /\ ai_insights' = parse_json(response_text)
    /\ pc' = "returned"
    /\ UNCHANGED <<mode, api_key, form_data, missing_fields, metrics,
                   recommendations, report, ui, raised, calls, raw_response,
                   response_text>>
    /\ UNCHANGED <<session_state, submissions, doc_mapping, uploaded_docs>>

NextNorm ==
    \/ ReadContent
    \/ RemoveCodeBlocks
    \/ RemoveBeforeFirstBrace
    \/ RemoveAfterLastBrace
    \/ ParseJson

SpecNorm == InitNorm /\ [][NextNorm]_vars

\* C8: a response made of leading prose, a code fence (plain or with a
\* language tag) enclosing a well-formed JSON object text J, and trailing
\* prose is normalized to the object J denotes.
\* (Violated: a J that holds a triple backtick inside a string is cut there.)
C8_FencedRoundTrip ==
    pc = "returned" =>
        \A lead \in Leads, tag \in Tags, j \in JObjects, trail \in Trails :
            raw_response = Wrap(lead, tag, j, trail) =>
                ai_insights = json_loads(j).val

C10_ReturnsRecord ==
    pc = "returned" => ai_insights[1] = "obj"

-----------------------------------------------------------------------------
(* The submit handler ("if submitted:"), step by step.                     *)

\* a test that takes only an empty answer as missing, never a zero
is_missing_blank_only(data, field) ==
    field \in TextFields /\ data[field] = <<>>

\* not form_data.get(field): an empty text, a zero number
is_missing(data, field) ==
    IF field \in NumericFields THEN data[field] = 0 ELSE data[field] = <<>>

\* a validation that looks at the text answers only
missing_texts_only(data) ==
    SelectSeq(required_fields,
              LAMBDA f : f \in TextFields /\ is_missing(data, f))

\* [field for field in required_fields if not form_data.get(field)]
missing(data) ==
    SelectSeq(required_fields, LAMBDA f : is_missing(data, f))

\* is_valid_url: the URL pattern matches somewhere in the text
is_valid_url(text) == \E i \in DOMAIN text : text[i] = "url"

\* extract_urls_from_text: every match of the URL pattern
extract_urls_from_text(text) == SelectSeq(text, LAMBDA w : w = "url")

Min(a, b) == IF a < b THEN a ELSE b

\* for url in urls[:3]: the number of fetch_url_content calls
fetch_count(text) ==
    IF text = <<>> \/ ~is_valid_url(text) THEN 0
    ELSE Min(Len(extract_urls_from_text(text)), 3)

\* process_text_with_urls: the text, a separator, the content of each
\* fetched URL
process_text_with_urls(text) ==
    IF text = <<>> \/ ~is_valid_url(text) THEN text
    ELSE text \o <<"--- Additional Content from URLs ---">>
              \o [i \in 1..fetch_count(text) |-> "fetched"]

\* the loop over url_fields_to_check
enrich(data) ==
    [f \in DOMAIN data |->
        IF /\ \E i \in DOMAIN url_fields_to_check : url_fields_to_check[i] = f
           /\ data[f] # <<>>
           /\ is_valid_url(data[f])
        THEN process_text_with_urls(data[f])
        ELSE data[f]]

\* process_uploaded_file: the text of a PDF, DOCX or TXT file, a message
\* for any other type or for a file whose extraction raised
process_uploaded_file(file) ==
    CASE file \in {"pdf", "docx", "txt"} -> "extracted text"
      [] file = "broken" -> "Error processing file"
      [] OTHER -> "Unsupported file type. Please upload PDF, DOCX, or TXT files."

RECURSIVE SumFetches(_, _)
SumFetches(data, i) ==
    IF i > Len(url_fields_to_check) THEN 0
    ELSE fetch_count(data[url_fields_to_check[i]]) + SumFetches(data, i + 1)

Recommendation(area, issue, value, action) ==
    [area |-> area, issue |-> issue, value |-> value, action |-> action]

When(cond, rec) == IF cond THEN <<rec>> ELSE <<>>

unit_economics_check(m, data) ==
    When(RLess(m.ltv_cac_ratio, Rat(3)),
         Recommendation("Unit Economics", "LTV/CAC ratio is below 3.0 benchmark",
             m.ltv_cac_ratio,
             "Focus on improving customer retention and reducing acquisition costs"))

financial_health_check(m, data) ==
    When(data["runway_months"] < 18,
         Recommendation("Financial Health", "Runway is only months",
             Rat(data["runway_months"]),
             "Extend runway to 18-24 months through fundraising or burn reduction"))

business_model_check(m, data) ==
    When(data["gross_margin"] < 70,
         Recommendation("Business Model", "Gross margin is below SaaS benchmark",
             Rat(data["gross_margin"]),
             "Optimize pricing strategy and reduce COGS to improve margins"))

growth_check(m, data) ==
    When(data["monthly_growth_rate"] < 10,
         Recommendation("Growth", "Monthly growth rate is",
             Rat(data["monthly_growth_rate"]),
             "Accelerate growth through improved sales/marketing efficiency"))

\* a retention check that also fires at the benchmark itself
customer_retention_check_at_benchmark(m, data) ==
    When(data["churn_rate"] >= 5,
         Recommendation("Customer Retention", "Monthly churn rate is",
             Rat(data["churn_rate"]),
             "Implement customer success initiatives to reduce churn below 5%"))

customer_retention_check(m, data) ==
    When(data["churn_rate"] > 5,
         Recommendation("Customer Retention", "Monthly churn rate is",
             Rat(data["churn_rate"]),
             "Implement customer success initiatives to reduce churn below 5%"))

\* the checks with the growth check moved ahead of the financial ones
generate_recommendations_growth_first(m, data) ==
    growth_check(m, data) \o unit_economics_check(m, data)
        \o financial_health_check(m, data) \o business_model_check(m, data)
        \o customer_retention_check(m, data)

\* recommendations = [] and the five conditional appends, in order
generate_recommendations(m, data) ==
    unit_economics_check(m, data) \o financial_health_check(m, data)
        \o business_model_check(m, data) \o growth_check(m, data)
        \o customer_retention_check(m, data)

\* "error" in ai_insights, for a dictionary
has_error(d) == "error" \in DOMAIN d[2]

\* what generate_pdf_report builds
pdf_report(ai_arg, recs) ==
    [kind |-> "pdf", recommendations |-> recs,
     ai_section |-> (ai_arg # EmptyDict /\ ~has_error(ai_arg)),
     no_recommendations_note |-> (recs = <<>>)]

\* f"{x:.0f}": the nearest integer, a tie going to the even one
format_0f(x) ==
    IF IsInf(x) THEN x
    ELSE LET q == x[1] \div x[2]
             r == x[1] % x[2]
         IN  IF 2 * r > x[2] \/ (2 * r = x[2] /\ q % 2 = 1) THEN q + 1 ELSE q

\* the scores as the text report prints them
printed_scores(mt) ==
    [f \in SubScores \cup {"overall_score"} |-> format_0f(mt[f])]

\* a text report that writes the AI section in either mode
text_report_ai_in_any_mode(m, ai, recs, mt) ==
    [kind |-> "text", recommendations |-> recs,
     ai_section |-> ~has_error(ai),
     no_recommendations_note |-> FALSE,
     scores |-> printed_scores(mt)]

\* a text report that lists the recommendations last to first
text_report_reversed(m, ai, recs, mt) ==
    [kind |-> "text",
     recommendations |-> [i \in DOMAIN recs |-> recs[Len(recs) + 1 - i]],
     ai_section |-> (m = "Pro" /\ ~has_error(ai)),
     no_recommendations_note |-> FALSE,
     scores |-> printed_scores(mt)]

\* the plain-text fallback report
text_report(m, ai, recs, mt) ==
    [kind |-> "text", recommendations |-> recs,
     ai_section |-> (m = "Pro" /\ ~has_error(ai)),
     no_recommendations_note |-> FALSE,
     scores |-> printed_scores(mt)]

-----------------------------------------------------------------------------
(* Spec: a session of the application.  The script runs from the top on    *)
(* every interaction; a run that was submitted goes through the handler.   *)

MaxMissing == 2

\* what the upload widgets may hold
DocInputs == {<<>>, <<"pdf", "png", "broken">>}

\* submissions followed within one session
MaxSubmissions == 2

Modes == {"Light", "Pro"}
Keys == {<<>>, <<"pk-", "x">>, GoodKey}

\* proposals on either side of each benchmark
BenchmarkInputs ==
    [ltv : {200, 300, 400}, runway_months : {12, 18}, gross_margin : {50, 70},
     monthly_growth_rate : {5, 10}, churn_rate : {5, 6}]

\* proposals with some required fields left empty or zero
Cleared(fields) ==
    [f \in fields |-> IF f \in NumericFields THEN 0 ELSE Blank]

RequiredSet == {required_fields[i] : i \in DOMAIN required_fields}

IncompleteInputs ==
    {Cleared(fs) : fs \in {x \in SUBSET RequiredSet :
                              Cardinality(x) <= MaxMissing \/ x = RequiredSet}}

\* proposals whose answers hold URLs
UrlInputs ==
    {[problem_solution |-> <<"text", "url">>],
     [problem_solution |-> <<"url">>,
      market_info |-> <<"url", "text", "url", "url", "url">>],
     [progress |-> <<"url", "url">>, company_name |-> Blank]}

PipelineProposals ==
    {With(BaseProposal, u) :
        u \in BenchmarkInputs \cup IncompleteInputs \cup UrlInputs}

\* what the collaborator may answer in a run of the pipeline
PipelineOutcomes ==
    {RaiseOutcome(m) : m \in {"api_key", "rate", "other"}}
    \cup {TextOutcome(t) :
            t \in {<<"{", "Q", "w", "Q", ":", "_", "1", "}">>,
                   <<"F", "json", "_", "{", "}", "_", "F">>,
                   <<"{", "Q", "w", "Q", ":">>,
                   <<"[", "1", "]">>,
                   <<"n">>,
                   <<"w">>}}

Init ==
    /\ FreshSession
    /\ FreshRun
    /\ raw_response = <<>>
    /\ pc = "idle"
    /\ form_data = BaseProposal

\* the top of the script: the mode radio and, in Pro mode, the key input
SessionWidgets(m, k) ==
    /\ mode' = m
    /\ api_key' = IF m = "Pro" THEN k ELSE api_key
    /\ ui' = IF m = "Pro" /\ k # <<>> /\ ~starts_with_sk(k)
             THEN {"invalid_key_format"} ELSE {}

\* a rerun that starts with the results of the run before it
ResetLocalsKeepingResults ==
    /\ missing_fields' = <<>>
    /\ ai_insights' = EmptyDict
    /\ raised' = {}
    /\ calls' = NoCalls
    /\ raw_response' = <<>>
    /\ response_text' = <<>>
    /\ UNCHANGED <<metrics, recommendations, report>>

ResetLocals ==
    /\ missing_fields' = <<>>
    /\ metrics' = NoMetrics
    /\ ai_insights' = EmptyDict
    /\ recommendations' = <<>>
    /\ report' = NoReport
    /\ raised' = {}
    /\ calls' = NoCalls
    /\ raw_response' = <<>>
    /\ response_text' = <<>>

\* a rerun of the script that is not a submission
Interact ==
    /\ pc \in {"idle", "done"}
    /\ \E m \in Modes, k \in Keys : SessionWidgets(m, k)
    /\ ResetLocals
    /\ pc' = "idle"
    /\ form_data' = BaseProposal
    /\ doc_mapping' = <<>>
    /\ uploaded_docs' = <<>>
    /\ UNCHANGED <<session_state, submissions>>

\* the form is submitted: form_data is collected
Submit ==
    /\ pc = "idle"
    /\ submissions < MaxSubmissions
    /\ submissions' = submissions + 1
    /\ \E m \in Modes, k \in Keys : SessionWidgets(m, k)
    /\ \E data \in PipelineProposals : form_data' = data
    /\ ResetLocals
    /\ pc' = "enrich"
    /\ \E docs \in DocInputs : doc_mapping' = docs
    /\ uploaded_docs' = <<>>
    /\ UNCHANGED session_state

\* a handler that fetches URLs only for a submission that carries a
\* well-formed key
EnrichUrlsWithKeyOnly ==
    /\ pc = "enrich"
    /\ form_data' = IF mode = "Pro" /\ starts_with_sk(api_key)
                    THEN enrich(form_data) ELSE form_data
    /\ uploaded_docs' =
          [i \in DOMAIN doc_mapping |-> process_uploaded_file(doc_mapping[i])]
    /\ calls' = [calls EXCEPT
                    !.fetch = IF mode = "Pro" /\ starts_with_sk(api_key)
                              THEN @ + SumFetches(form_data, 1) ELSE @,
                    !.extract = @ + Len(doc_mapping)]
    /\ pc' = "validate"
    /\ UNCHANGED <<mode, api_key, missing_fields, metrics, ai_insights,
                   recommendations, report, ui, raised, raw_response,
                   response_text>>
    /\ UNCHANGED <<session_state, submissions, doc_mapping>>

\* "Check and process URLs in text fields (Pro mode only)" and "Process
\* uploaded documents" (either mode)
EnrichUrls ==
    /\ pc = "enrich"
    /\ form_data' = IF mode = "Pro" THEN enrich(form_data) ELSE form_data
    /\ uploaded_docs' =
          [i \in DOMAIN doc_mapping |-> process_uploaded_file(doc_mapping[i])]
    /\ calls' = [calls EXCEPT
                    !.fetch = IF mode = "Pro"
                              THEN @ + SumFetches(form_data, 1) ELSE @,
                    !.extract = @ + Len(doc_mapping)]
    /\ pc' = "validate"
    /\ UNCHANGED <<mode, api_key, missing_fields, metrics, ai_insights,
                   recommendations, report, ui, raised, raw_response,
                   response_text>>
    /\ UNCHANGED <<session_state, submissions, doc_mapping>>

\* "Validation"
Validate ==
    /\ pc = "validate"
    /\ missing_fields' = missing(form_data)
    /\ IF missing(form_data) # <<>>
       THEN /\ ui' = ui \cup {"missing_fields"}
            /\ pc' = "done"
       ELSE /\ ui' = ui
            /\ pc' = "metrics"
    /\ UNCHANGED <<mode, api_key, form_data, metrics, ai_insights,
                   recommendations, report, raised, calls, raw_response,
                   response_text>>
    /\ UNCHANGED <<session_state, submissions, doc_mapping, uploaded_docs>>

\* metrics = calculate_comprehensive_metrics(form_data)
CalculateMetrics ==
    /\ pc = "metrics"
    /\ \E exc \in BOOLEAN :
          /\ metrics' = calculate_comprehensive_metrics(form_data, exc)
          /\ raised' = IF exc THEN raised \cup {"metrics"} ELSE raised
          /\ ui' = IF exc THEN ui \cup {"metrics_error"} ELSE ui
    /\ calls' = [calls EXCEPT !.metrics = @ + 1]
    /\ pc' = "dashboard"
    /\ UNCHANGED <<mode, api_key, form_data, missing_fields, ai_insights,
                   recommendations, report, raw_response, response_text>>
    /\ UNCHANGED <<session_state, submissions, doc_mapping, uploaded_docs>>

\* the except branch of the handler's outermost try
UnexpectedError(stage) ==
    /\ raised' = raised \cup {stage}
    /\ ui' = ui \cup {"unexpected_error"}
    /\ pc' = "done"

\* the KPI dashboard and the charts; nothing but the outermost try guards it
Dashboard ==
    /\ pc = "dashboard"
    /\ \E exc \in BOOLEAN :
          IF exc THEN UnexpectedError("dashboard")
          ELSE /\ pc' = "ai"
               /\ UNCHANGED <<raised, ui>>
    /\ UNCHANGED <<mode, api_key, form_data, missing_fields, metrics,
                   ai_insights, recommendations, report, calls, raw_response,
                   response_text>>
    /\ UNCHANGED <<session_state, submissions, doc_mapping, uploaded_docs>>

\* what the "Pro Mode AI Insights" block leaves in ai_insights and shows:
\* r is the value generate_ai_insights returned, exc an exception raised
\* while the insights are displayed
AiBlockResult(r, exc) ==
    IF r[1] # "obj" THEN [ai |-> EmptyDict, shown |-> "ai_unavailable"]
    ELSE IF has_error(r) THEN [ai |-> EmptyDict, shown |-> "ai_error"]
    ELSE IF exc THEN [ai |-> EmptyDict, shown |-> "ai_unavailable"]
    ELSE [ai |-> r, shown |-> "ai_insights"]

AiInsights ==
    /\ pc = "ai"
    /\ IF mode = "Pro" /\ api_key # <<>>
       THEN \E outcome \in PipelineOutcomes, exc \in BOOLEAN :
               LET r == generate_ai_insights(api_key, outcome)
                   b == AiBlockResult(r, exc)
               IN  /\ ai_insights' = b.ai
                   /\ ui' = ui \cup {b.shown}
                   /\ raised' = IF b.shown = "ai_unavailable"
                                THEN raised \cup {"ai"} ELSE raised
                   /\ raw_response' = IF starts_with_sk(api_key)
                                      THEN outcome.text ELSE <<>>
                   /\ calls' = [calls EXCEPT
                                   !.ai = @ + 1,
                                   !.collaborator =
                                       IF starts_with_sk(api_key) THEN @ + 1 ELSE @]
       ELSE UNCHANGED <<ai_insights, ui, raised, raw_response, calls>>
    /\ pc' = "recommend"
    /\ UNCHANGED <<mode, api_key, form_data, missing_fields, metrics,
                   recommendations, report, response_text>>
    /\ UNCHANGED <<session_state, submissions, doc_mapping, uploaded_docs>>

\* "Recommendations Section (for both modes)"
Recommend ==
    /\ pc = "recommend"
    /\ \E exc \in BOOLEAN :
          IF exc
          THEN /\ UnexpectedError("recommend")
               /\ UNCHANGED <<recommendations, calls>>
          ELSE LET recs == generate_recommendations(metrics, form_data)
               IN  /\ recommendations' = recs
                   /\ ui' = ui \cup {IF recs = <<>> THEN "all_benchmarks_met"
                                     ELSE "recommendations_listed"}
                   /\ calls' = [calls EXCEPT !.recommend = @ + 1]
                   /\ pc' = "pdf"
                   /\ UNCHANGED raised
    /\ UNCHANGED <<mode, api_key, form_data, missing_fields, metrics,
                   ai_insights, report, raw_response, response_text>>
    /\ UNCHANGED <<session_state, submissions, doc_mapping, uploaded_docs>>

\* generate_pdf_report and the download button, inside their own try
RenderPdf ==
    /\ pc = "pdf"
    /\ \E exc \in BOOLEAN :
          IF exc
          THEN /\ raised' = raised \cup {"pdf"}
               /\ ui' = ui \cup {"pdf_warning"}
               /\ pc' = "text"
               /\ UNCHANGED report
          ELSE /\ report' = pdf_report(
                      IF mode = "Pro" /\ ~has_error(ai_insights)
                      THEN ai_insights ELSE EmptyDict,
                      recommendations)
               /\ pc' = "done"
               /\ UNCHANGED <<raised, ui>>
    /\ calls' = [calls EXCEPT !.render = @ + 1]
    /\ UNCHANGED <<mode, api_key, form_data, missing_fields, metrics,
                   ai_insights, recommendations, raw_response, response_text>>
    /\ UNCHANGED <<session_state, submissions, doc_mapping, uploaded_docs>>

\* "Fallback to text report", inside the except branch of the PDF's try
RenderText ==
    /\ pc = "text"
    /\ \E exc \in BOOLEAN :
          IF exc
          THEN /\ UnexpectedError("text")
               /\ UNCHANGED report
          ELSE /\ report' = text_report(mode, ai_insights, recommendations,
                                       metrics)
               /\ pc' = "done"
               /\ UNCHANGED <<raised, ui>>
    /\ calls' = [calls EXCEPT !.render = @ + 1]
    /\ UNCHANGED <<mode, api_key, form_data, missing_fields, metrics,
                   ai_insights, recommendations, raw_response, response_text>>
    /\ UNCHANGED <<session_state, submissions, doc_mapping, uploaded_docs>>

Next ==
    \/ Interact
    \/ Submit
    \/ EnrichUrls
    \/ Validate
    \/ CalculateMetrics
    \/ Dashboard
    \/ AiInsights
    \/ Recommend
    \/ RenderPdf
    \/ RenderText

Spec == Init /\ [][Next]_vars

-----------------------------------------------------------------------------
(* Properties of the pipeline.                                             *)

AreaOrder ==
    <<"Unit Economics", "Financial Health", "Business Model", "Growth",
      "Customer Retention">>

AreaIndex(a) == CHOOSE i \in DOMAIN AreaOrder : AreaOrder[i] = a

Areas(recs) == {recs[i].area : i \in DOMAIN recs}

InOrder(recs) ==
    /\ Areas(recs) \subseteq {AreaOrder[i] : i \in DOMAIN AreaOrder}
    /\ \A i, j \in DOMAIN recs :
          i < j => AreaIndex(recs[i].area) < AreaIndex(recs[j].area)

\* C3: the Recommendation list (and the copy the report carries) is a
\* subsequence of [Unit Economics, Financial Health, Business Model, Growth,
\* Customer Retention]: areas in that relative order, none twice.
C3_RecommendationOrder ==
    InOrder(recommendations) /\ InOrder(report.recommendations)

C3_Witness ==
    /\ calls.recommend = 1
    /\ Len(recommendations) = 3
    /\ recommendations[1].area = "Financial Health"
    /\ recommendations[2].area = "Growth"
    /\ recommendations[3].area = "Customer Retention"

\* C4: once the recommendations are generated, the list holds Unit Economics
\* iff ltv_cac_ratio < 3 (iff ltv < 3 * cac when the metrics were computed
\* without a fault), Financial Health iff runway_months < 18, Business Model
\* iff gross_margin < 70, Growth iff monthly_growth_rate < 10, Customer
\* Retention iff churn_rate > 5; an empty list is answered with the positive
\* message, and the run then ends with a report unless rendering itself
\* raised (the PDF with its "no specific recommendations" note when the PDF
\* was built).
C4_BenchmarksDecideList ==
    calls.recommend = 1 =>
        LET A == Areas(recommendations)
        IN  /\ "Unit Economics" \in A <=> RLess(metrics.ltv_cac_ratio, Rat(3))
            /\ "metrics" \notin raised =>
                  ("Unit Economics" \in A <=>
                      form_data["ltv"] < 3 * form_data["cac"])
            /\ "Financial Health" \in A <=> form_data["runway_months"] < 18
            /\ "Business Model" \in A <=> form_data["gross_margin"] < 70
            /\ "Growth" \in A <=> form_data["monthly_growth_rate"] < 10
            /\ "Customer Retention" \in A <=> form_data["churn_rate"] > 5
            /\ (recommendations = <<>>) <=> ("all_benchmarks_met" \in ui)
            /\ (recommendations = <<>> /\ pc = "done" /\ "text" \notin raised) =>
                  report.kind \in {"pdf", "text"}
            /\ (recommendations = <<>> /\ pc = "done" /\ "pdf" \notin raised) =>
                  (report.kind = "pdf" /\ report.no_recommendations_note)

C4_Witness ==
    /\ pc = "done"
    /\ calls.recommend = 1
    /\ recommendations = <<>>
    /\ form_data["churn_rate"] = 5
    /\ "all_benchmarks_met" \in ui
    /\ report.kind = "pdf"
    /\ report.no_recommendations_note

\* C6: every submission that passed validation ends with a report (the PDF
\* or the plain-text fallback), whatever fault occurred on the way.
\* (Violated: an exception in the dashboard, in the recommendation block or
\* in the text fallback reaches the outermost except, which only shows an
\* error.)
C6_ValidatedSubmissionGetsReport ==
    (pc = "done" /\ calls.metrics = 1) => report.kind \in {"pdf", "text"}

PositionIn(seq, x) == CHOOSE i \in DOMAIN seq : seq[i] = x

\* C7: after validation, missing_fields holds exactly the required fields
\* whose value is empty or zero, in the order of required_fields; when it is
\* not empty the run ends there: the error is shown and no metric is
\* computed, no AI call made, no recommendation generated, no report rendered.
C7_MissingFieldsStopPipeline ==
    pc \notin {"idle", "enrich", "validate"} =>
        /\ \A f \in RequiredSet :
              (\E i \in DOMAIN missing_fields : missing_fields[i] = f) <=>
                  (IF f \in NumericFields
                   THEN form_data[f] = 0 ELSE form_data[f] = <<>>)
        /\ \A i \in DOMAIN missing_fields : missing_fields[i] \in RequiredSet
        /\ \A i, j \in DOMAIN missing_fields :
              i < j => PositionIn(required_fields, missing_fields[i])
                         < PositionIn(required_fields, missing_fields[j])
        /\ missing_fields # <<>> =>
              /\ pc = "done"
              /\ "missing_fields" \in ui
              /\ calls.metrics = 0 /\ calls.ai = 0 /\ calls.collaborator = 0
              /\ calls.recommend = 0 /\ calls.render = 0
              /\ metrics = NoMetrics
              /\ ai_insights = EmptyDict
              /\ recommendations = <<>>
              /\ report = NoReport

C7_Witness ==
    /\ pc = "done"
    /\ mode = "Pro"
    /\ starts_with_sk(api_key)
    /\ missing_fields = <<"company_name", "cac">>
    /\ "missing_fields" \in ui
    /\ calls.metrics = 0

-----------------------------------------------------------------------------
(* SpecInsights: one call of generate_ai_insights from its first           *)
(* statement: the two key checks, the collaborator call, then the          *)
(* clean-up and parse steps of SpecNorm.                                   *)

InsightKeys == Keys \cup {<<"sk-">>, <<"x", "sk-">>, <<"sk">>}

InsightOutcomes ==
    {RaiseOutcome(m) : m \in {"api_key", "rate", "other"}}
    \cup {TextOutcome(t) : t \in Responses}

InitInsights ==
    /\ mode = "Pro"
    /\ api_key \in InsightKeys
    /\ FreshRun
    /\ raw_response = <<>>
    /\ pc = "called"
    /\ form_data = BaseProposal
    /\ session_state = [form_data |-> EmptyDict, uploaded_docs |-> EmptyDict]
    /\ submissions = 0

\* "if not api_key" and "if not api_key.startswith('sk-')"
CheckKey ==
    /\ pc = "called"
    /\ IF api_key = <<>> \/ ~starts_with_sk(api_key)
       THEN /\ ai_insights' = generate_ai_insights(api_key, TextOutcome(<<>>))
            /\ calls' = [calls EXCEPT !.ai = @ + 1]
            /\ pc' = "returned"
       ELSE /\ pc' = "create"
            /\ UNCHANGED <<ai_insights, calls>>
    /\ UNCHANGED <<mode, api_key, form_data, missing_fields, metrics,
                   recommendations, report, ui, raised, raw_response,
                   response_text>>
    /\ UNCHANGED <<session_state, submissions, doc_mapping, uploaded_docs>>

\* OpenAI(api_key=api_key) and client.chat.completions.create(...)
CreateCompletion ==
    /\ pc = "create"
    /\ \E outcome \in InsightOutcomes :
          IF outcome.kind = "raise"
          THEN /\ ai_insights' = generate_ai_insights(api_key, outcome)
               /\ calls' = [calls EXCEPT !.ai = @ + 1, !.collaborator = @ + 1]
               /\ pc' = "returned"
               /\ UNCHANGED raw_response
          ELSE /\ raw_response' = outcome.text
               /\ calls' = [calls EXCEPT !.collaborator = @ + 1]
               /\ pc' = "received"
               /\ UNCHANGED ai_insights
    /\ UNCHANGED <<mode, api_key, form_data, missing_fields, metrics,
                   recommendations, report, ui, raised, response_text>>
    /\ UNCHANGED <<session_state, submissions, doc_mapping, uploaded_docs>>

NextInsights ==
    \/ CheckKey
    \/ CreateCompletion
    \/ NextNorm

SpecInsights == InitInsights /\ [][NextInsights]_vars

\* C11: generate_ai_insights called with a key that is empty, or that does
\* not start with 'sk-', returns a credential error record (the "provide a
\* key" error for the empty key, the "invalid format" error otherwise) and
\* the collaborator is not invoked on that call.
C11_BadKeyShortCircuits ==
    (api_key = <<>> \/ Head(api_key) # "sk-") =>
        /\ calls.collaborator = 0
        /\ pc \in {"called", "returned"}
        /\ pc = "returned" =>
              ai_insights =
                 IF api_key = <<>>
                 THEN ErrorRecord("Please provide an OpenAI API key for Pro mode analysis.")
                 ELSE ErrorRecord("Invalid API key format. OpenAI API keys should start with 'sk-'")

C11_Witness ==
    /\ pc = "returned"
    /\ api_key = <<"x", "sk-">>
    /\ calls.ai = 1
    /\ calls.collaborator = 0
    /\ has_error(ai_insights)

\* C12: a Pro-mode submission that passed validation and ran to its end
\* without any exception, with a credential that is absent or does not
\* start with 'sk-', has reported a credential error to the user and has
\* not invoked the collaborator.
\* (Violated: with the key left empty the AI block is skipped silently.)
C12_BadCredentialReported ==
    (/\ pc = "done"
     /\ mode = "Pro"
     /\ calls.metrics = 1
     /\ raised = {}
     /\ (api_key = <<>> \/ Head(api_key) # "sk-")) =>
        /\ calls.collaborator = 0
        /\ ui \cap {"invalid_key_format", "ai_error"} # {}

\* C13: during and after a Light-mode submission, whatever key the session
\* still holds from an earlier Pro-mode rerun, generate_ai_insights and the
\* collaborator have not been called, no URL has been fetched, ai_insights
\* is the empty dictionary and the report (PDF or text) has no AI section.
C13_LightSkipsAi ==
    (mode = "Light" /\ pc # "idle") =>
        /\ calls.ai = 0
        /\ calls.collaborator = 0
        /\ calls.fetch = 0
        /\ ai_insights = EmptyDict
        /\ ~report.ai_section
        /\ "ai_insights" \notin ui

C13_Witness ==
    /\ mode = "Light"
    /\ api_key = GoodKey
    /\ pc = "done"
    /\ is_valid_url(form_data["problem_solution"])
    /\ report.kind = "text"
    /\ calls.fetch = 0

\* C14: over a single submission at most 3 URLs are fetched in total.
\* (Violated: the cap of 3 is applied to each enriched field on its own.)
C14_AtMostThreeFetches == calls.fetch <= 3

C16_NothingRetained ==
    /\ session_state = [form_data |-> EmptyDict, uploaded_docs |-> EmptyDict]
    /\ pc \in {"idle", "enrich", "validate", "metrics"} =>
          /\ metrics = NoMetrics
          /\ ai_insights = EmptyDict
          /\ recommendations = <<>>
          /\ report = NoReport
    /\ metrics # NoMetrics =>
          metrics = calculate_comprehensive_metrics(form_data, "metrics" \in raised)
    /\ calls.recommend = 0 => recommendations = <<>>
    /\ calls.recommend = 1 =>
          recommendations = generate_recommendations(metrics, form_data)
    /\ calls.render = 0 => report = NoReport
    /\ report.kind # "none" =>
          /\ report.recommendations = generate_recommendations(metrics, form_data)
          /\ report.kind = "text" => report.scores = printed_scores(metrics)

C16_Witness ==
    /\ submissions = 2
    /\ pc = "done"
    /\ form_data["churn_rate"] = 5
    /\ form_data["ltv"] = 400
    /\ recommendations = <<>>
    /\ report.kind = "pdf"
    /\ session_state.form_data = EmptyDict

-----------------------------------------------------------------------------
(* Properties of the three ratios, checked on SpecCalc.                    *)

\* x = n / d, for a rational x and integers n and d > 0
IsQuotient(x, n, d) == x[2] > 0 /\ x[1] * d = n * x[2]

Returned == pc = "return" /\ "metrics" \notin raised

\* C17: on return without a fault, ltv_cac_ratio is ltv / cac when cac > 0
\* and 0 when cac <= 0 (where no division is attempted: the call did not
\* fall into the all-zero error result, payback_period being infinite).
C17_LtvCacRatio ==
    Returned =>
        IF form_data["cac"] > 0
        THEN IsQuotient(metrics["ltv_cac_ratio"], form_data["ltv"], form_data["cac"])
        ELSE /\ metrics["ltv_cac_ratio"] = Rat(0)
             /\ IsInf(metrics["payback_period"])

C17_Witness ==
    /\ Returned
    /\ form_data["cac"] = 0
    /\ form_data["ltv"] = 900
    /\ metrics["ltv_cac_ratio"] = Rat(0)

\* C18: on return without a fault, payback_period is
\* cac / (arr / 12 / max(current_customers, 1)), that is
\* cac * 12 * max(current_customers, 1) / arr, when cac > 0 and arr > 0, and
\* +infinity in every other case.
C18_PaybackPeriod ==
    Returned =>
        IF form_data["cac"] > 0 /\ form_data["arr"] > 0
        THEN IsQuotient(metrics["payback_period"],
                        form_data["cac"] * 12
                            * (IF form_data["current_customers"] >= 1
                               THEN form_data["current_customers"] ELSE 1),
                        form_data["arr"])
        ELSE IsInf(metrics["payback_period"])

C18_Witness ==
    /\ Returned
    /\ form_data["cac"] = 300
    /\ form_data["arr"] = 1200
    /\ form_data["current_customers"] = 1000
    /\ metrics["payback_period"] = Rat(3000)

\* C19: on return without a fault, with net_burn = burn_rate - current_mrr,
\* burn_multiple is net_burn / (current_mrr * monthly_growth_rate / 100)
\* when burn_rate > 0, current_mrr > 0, net_burn > 0 and
\* monthly_growth_rate > 0; 0 when burn_rate > 0 and current_mrr > 0 but
\* net_burn <= 0 or monthly_growth_rate = 0; +infinity when burn_rate = 0 or
\* current_mrr = 0; and exactly one of the three cases applies.
C19_BurnMultiple ==
    Returned =>
        LET burn == form_data["burn_rate"]
            mrr == form_data["current_mrr"]
            g == form_data["monthly_growth_rate"]
            net == burn - mrr
            ratio_case == burn > 0 /\ mrr > 0 /\ net > 0 /\ g > 0
            zero_case == burn > 0 /\ mrr > 0 /\ (net <= 0 \/ g = 0)
            inf_case == burn = 0 \/ mrr = 0
        IN  /\ ratio_case =>
                  IsQuotient(metrics["burn_multiple"], net * 100, mrr * g)
            /\ zero_case => metrics["burn_multiple"] = Rat(0)
            /\ inf_case => IsInf(metrics["burn_multiple"])
            /\ Cardinality({c \in {"ratio", "zero", "inf"} :
                               \/ c = "ratio" /\ ratio_case
                               \/ c = "zero" /\ zero_case
                               \/ c = "inf" /\ inf_case}) = 1

C19_Witness ==
    /\ Returned
    /\ form_data["burn_rate"] = 300
    /\ form_data["current_mrr"] = 100
    /\ form_data["monthly_growth_rate"] = 4
    /\ metrics["burn_multiple"] = Rat(50)

\* C20: on return without a fault, overall_score is
\* efficiency*0.20 + growth*0.20 + market*0.15 + team*0.15 + traction*0.20
\* + risk*0.10 (taken here in hundredths: 20, 20, 15, 15, 20, 10 over 100),
\* and the six weights add up to exactly 1.
C20_OverallIsWeightedSum ==
    /\ RAdd(RAdd(RAdd(RAdd(RAdd(weights.efficiency, weights.growth),
                           weights.market), weights.team),
                 weights.traction), weights.risk) = Rat(1)
    /\ Returned =>
          LET hundredths ==
                 RAdd(RAdd(RAdd(RAdd(RAdd(
                     RMul(metrics["efficiency_score"], Rat(20)),
                     RMul(metrics["growth_score"], Rat(20))),
                     RMul(metrics["market_score"], Rat(15))),
                     RMul(metrics["team_score"], Rat(15))),
                     RMul(metrics["traction_score"], Rat(20))),
                     RMul(metrics["risk_score"], Rat(10)))
          IN  RMul(metrics["overall_score"], Rat(100)) = hundredths

C20_Witness ==
    /\ Returned
    /\ form_data = With(BaseProposal, [tam |-> 10000, som |-> 250])
    /\ metrics["market_score"] = Rat(75)
    /\ metrics["traction_score"] # metrics["risk_score"]
    /\ RLess(Rat(0), metrics["overall_score"])

-----------------------------------------------------------------------------
(* Properties of the sub-scores, checked on SpecCalc.                      *)

\* min(100, x) for a rational x
CapAt100(x) == IF RLeq(Rat(100), x) THEN Rat(100) ELSE x

\* C21: on return without a fault, efficiency_score is
\* min(100, ltvScore + gross_margin * 0.5), where ltvScore is
\* min(100, (ltv_cac_ratio / 3) * 50) = min(100, 50 * ltv / (3 * cac)) when
\* the ratio is positive (cac > 0 and ltv > 0) and 0 otherwise; cac = 100,
\* ltv = 400 gives ratio 4 and ltvScore 200/3.
C21_EfficiencyScore ==
    Returned =>
        LET cac == form_data["cac"]
            ltv == form_data["ltv"]
            ltvScore == IF cac > 0 /\ ltv > 0
                        THEN CapAt100(Norm(50 * ltv, 3 * cac))
                        ELSE Rat(0)
        IN  /\ metrics["efficiency_score"] =
                  CapAt100(RAdd(ltvScore, Norm(form_data["gross_margin"], 2)))
            /\ (cac = 100 /\ ltv = 400) =>
                  /\ metrics["ltv_cac_ratio"] = Rat(4)
                  /\ ltvScore = <<200, 3>>

C21_Witness ==
    /\ Returned
    /\ form_data["cac"] = 100
    /\ form_data["ltv"] = 400
    /\ form_data["gross_margin"] = 50
    /\ metrics["ltv_cac_ratio"] = Rat(4)
    /\ metrics["efficiency_score"] = <<275, 3>>

\* C22: on return without a fault, with r = monthly_growth_rate >= 0,
\* growth_score is 100 if r >= 20, 80 if 10 <= r < 20, 60 if 5 <= r < 10 and
\* r * 10 if r < 5; r = 10 and r = 12 both give 80.
C22_GrowthTiers ==
    Returned =>
        LET r == form_data["monthly_growth_rate"]
            g == metrics["growth_score"]
        IN  /\ r >= 20 => g = Rat(100)
            /\ (10 <= r /\ r < 20) => g = Rat(80)
            /\ (5 <= r /\ r < 10) => g = Rat(60)
            /\ r < 5 => g = Rat(r * 10)

C22_Witness ==
    /\ Returned
    /\ form_data["monthly_growth_rate"] = 10
    /\ metrics["growth_score"] = Rat(80)

\* the size tier of a market of tam $M
SizeScore(tam) ==
    CASE tam >= 10000 -> 100
      [] tam >= 1000 /\ tam < 10000 -> 80
      [] tam >= 100 /\ tam < 1000 -> 60
      [] tam < 100 -> 40

\* C23: on return without a fault, market_score is
\* (sizeScore + captureScore) / 2, with sizeScore 100 / 80 / 60 / 40 for
\* tam >= 10000 / >= 1000 / >= 100 / below, and captureScore
\* min(100, (som / tam) * 100 * 20) when tam > 0 and som > 0, else 50;
\* tam = 5000, som = 0 gives 65.
C23_MarketScore ==
    Returned =>
        LET tam == form_data["tam"]
            som == form_data["som"]
            captureScore == IF tam > 0 /\ som > 0
                            THEN CapAt100(Norm(som * 2000, tam))
                            ELSE Rat(50)
        IN  /\ RMul(metrics["market_score"], Rat(2)) =
                  RAdd(Rat(SizeScore(tam)), captureScore)
            /\ (tam = 5000 /\ som = 0) => metrics["market_score"] = Rat(65)

C23_Witness ==
    /\ Returned
    /\ form_data["tam"] = 1000
    /\ form_data["som"] = 1
    /\ metrics["market_score"] = Rat(41)

\* C24: on return without a fault, team_score is
\* (min(100, team_size * 5) + (technical_team / max(team_size, 1)) * 100
\*  + min(100, advisors_count * 20)) / 3; team_size = 10, technical_team = 6,
\* advisors_count = 2 gives 50.
C24_TeamScore ==
    Returned =>
        LET size == form_data["team_size"]
            tech == form_data["technical_team"]
            adv == form_data["advisors_count"]
            sizeScore == IF size * 5 < 100 THEN size * 5 ELSE 100
            advisorScore == IF adv * 20 < 100 THEN adv * 20 ELSE 100
            technicalRatio == Norm(tech * 100, IF size >= 1 THEN size ELSE 1)
        IN  /\ RMul(metrics["team_score"], Rat(3)) =
                  RAdd(Rat(sizeScore + advisorScore), technicalRatio)
            /\ (size = 10 /\ tech = 6 /\ adv = 2) =>
                  metrics["team_score"] = Rat(50)

C24_Witness ==
    /\ Returned
    /\ form_data["team_size"] = 2
    /\ form_data["technical_team"] = 3
    /\ form_data["advisors_count"] = 6
    /\ metrics["team_score"] = <<260, 3>>

\* C30: on return without a fault, a proposal with tam > 0 and som = 0 has
\* market_score (sizeScore + 50) / 2, while the same proposal with any som
\* such that 0 < som < 0.025 * tam scores strictly less than that: the
\* score is not monotone in som.  In every case 20 <= market_score <= 100.
C30_MarketNotMonotoneInSom ==
    Returned =>
        LET tam == form_data["tam"]
            som == form_data["som"]
            with_som_zero == Norm(SizeScore(tam) + 50, 2)
        IN  /\ (tam > 0 /\ som = 0) => metrics["market_score"] = with_som_zero
            /\ (tam > 0 /\ 0 < som /\ 40 * som < tam) =>
                  RLess(metrics["market_score"], with_som_zero)
            /\ RLeq(Rat(20), metrics["market_score"])
            /\ RLeq(metrics["market_score"], Rat(100))

C30_Witness ==
    /\ Returned
    /\ form_data["tam"] = 5000
    /\ form_data["som"] = 100
    /\ metrics["market_score"] = Rat(60)
    /\ RLess(metrics["market_score"],
             market_score(With(form_data, [som |-> 0])))

-----------------------------------------------------------------------------
(* Properties of the clean-up steps, checked on SpecNorm.                  *)

\* C25: a response made of a well-formed JSON object text J followed by
\* trailing prose, with no code fence in it, is normalized to the object J
\* denotes, not to the fallback record.
\* (Violated: the text after the last brace is cut only when the text
\* already ends with a brace, that is, when there is nothing to cut.)
C25_TrailingProseRemoved ==
    pc = "returned" =>
        \A j \in JObjects, trail \in Trails :
            (raw_response = j \o trail /\ ~Contains(raw_response, Fence)) =>
                ai_insights = json_loads(j).val

\* the content between the first and the second fence marker of t, without
\* a json tag and without the white space around it
BetweenFirstTwoFences(t) ==
    LET rest == SubSeq(t, Find(t, Fence) + 1, Len(t))
        content == SubSeq(rest, 1, Find(rest, Fence) - 1)
    IN  Strip(IF content # <<>> /\ Head(content) = "json"
              THEN Tail(content) ELSE content)

FenceCount(t) == Cardinality({i \in DOMAIN t : t[i] = "F"})

\* C26: when the response holds at least two triple-backtick markers, the
\* text the first clean-up step keeps is the content between the first and
\* the second marker (minus a json tag), however plain and tagged fences are
\* arranged.
\* (Violated: when a json-tagged fence occurs anywhere, the step keeps what
\* follows the first json-tagged marker, also when a plain fenced block
\* comes before it.)
C26_FirstFencedBlockKept ==
    (pc = "before_brace" /\ FenceCount(raw_response) >= 2) =>
        response_text = BetweenFirstTwoFences(Strip(raw_response))

-----------------------------------------------------------------------------
(* Properties of the pipeline around the AI block and the validation.      *)

\* C27: once the AI block of a submission is over and the collaborator's
\* answer was a text whose JSON parse failed, the error has been shown, the
\* insights are not displayed, ai_insights is the empty dictionary, and the
\* report rendered (PDF or text) has no AI-insights section.
\* (Violated: in Pro mode the text fallback writes its AI section whenever
\* ai_insights has no 'error' key, which the emptied dictionary satisfies.)
C27_ParseFailureLeavesNoAiSection ==
    (/\ pc \in {"recommend", "pdf", "text", "done"}
     /\ calls.collaborator = 1
     /\ raw_response # <<>>
     /\ ~json_loads(clean_up(Strip(raw_response))).ok) =>
        /\ "ai_error" \in ui
        /\ "ai_insights" \notin ui
        /\ ai_insights = EmptyDict
        /\ ~report.ai_section

PositiveRequired == {"cac", "ltv", "burn_rate", "runway_months", "funding_seeking"}

\* C28: whenever the pipeline is about to call, or has called,
\* calculate_comprehensive_metrics, the proposal's cac, ltv, burn_rate,
\* runway_months and funding_seeking are all > 0, a zero in any of them
\* having been reported as a missing field; so the metrics the call returns
\* without a fault have ltv_cac_ratio = ltv / cac > 0.
C28_ValidatedNumbersPositive ==
    /\ (pc = "metrics" \/ calls.metrics = 1) =>
          /\ \A f \in PositiveRequired : form_data[f] > 0
          /\ missing_fields = <<>>
    /\ (calls.metrics = 1 /\ "metrics" \notin raised) =>
          /\ RLess(Rat(0), metrics["ltv_cac_ratio"])
          /\ IsQuotient(metrics["ltv_cac_ratio"], form_data["ltv"], form_data["cac"])
    /\ (pc \notin {"idle", "enrich", "validate"}
        /\ \E f \in PositiveRequired : form_data[f] = 0) =>
          /\ calls.metrics = 0
          /\ \E f \in PositiveRequired, i \in DOMAIN missing_fields :
                form_data[f] = 0 /\ missing_fields[i] = f

C28_Witness ==
    /\ pc = "dashboard"
    /\ calls.metrics = 1
    /\ "metrics" \notin raised
    /\ form_data["ltv"] = 200
    /\ metrics["ltv_cac_ratio"] = Rat(2)


\* how many words of a text are URLs, and how many are fetched content
UrlCount(text) == Cardinality({i \in DOMAIN text : text[i] = "url"})

FetchedCount(text) == Cardinality({i \in DOMAIN text : text[i] = "fetched"})

RECURSIVE TotalFetched(_)
TotalFetched(fields) ==
    IF fields = {} THEN 0
    ELSE LET f == CHOOSE g \in fields : TRUE
         IN  FetchedCount(form_data[f]) + TotalFetched(fields \ {f})

UrlFieldSet == {url_fields_to_check[i] : i \in DOMAIN url_fields_to_check}

\* C29: once the handler of a Pro-mode submission has reached the
\* required-field validation, every field of url_fields_to_check carries the
\* fetched content of its URLs (of the first three of them), the number of
\* fetch_url_content calls is the number of those contents, and every
\* uploaded file has been through process_uploaded_file; this holds
\* whatever the key is and whether or not validation then rejects the
\* submission.
C29_EnrichmentPrecedesValidation ==
    (mode = "Pro" /\ pc \notin {"idle", "enrich"}) =>
        /\ \A f \in UrlFieldSet :
              FetchedCount(form_data[f]) = Min(UrlCount(form_data[f]), 3)
        /\ calls.fetch = TotalFetched(UrlFieldSet)
        /\ calls.extract = Len(doc_mapping)
        /\ DOMAIN uploaded_docs = DOMAIN doc_mapping
        /\ \A i \in DOMAIN doc_mapping :
              uploaded_docs[i] = process_uploaded_file(doc_mapping[i])

\* a Pro-mode submission without a key, rejected for a missing company
\* name, that fetched its two URLs and read its three files
C29_Witness ==
    /\ pc = "done"
    /\ mode = "Pro"
    /\ api_key = <<>>
    /\ "missing_fields" \in ui
    /\ missing_fields = <<"company_name">>
    /\ UrlCount(form_data["progress"]) = 2
    /\ calls.fetch = 2
    /\ calls.extract = 3
    /\ calls.metrics = 0
=============================================================================
